---------------------------- MODULE Spec2Model ----------------------------
(***************************************************************************)
(* A model of the Mitama escrow / dispute-resolution program               *)
(* (programs/mitama/src/lib.rs).                                           *)
(*                                                                         *)
(* One action per instruction handler.  An instruction is a Solana         *)
(* transaction: when the handler returns an error every account is left as *)
(* it was, so a failing action changes only `result`, the record of the    *)
(* last call and its outcome.                                              *)
(*                                                                         *)
(* Modelling decisions:                                                    *)
(*  - Pubkeys are strings.  The escrow account of a transaction id is the  *)
(*    PDA seeded by that id (EscrowPda).                                   *)
(*  - TLC integers are 32 bits wide, so the u64 range is scaled down to    *)
(*    0..U64_MAX and the u128 range to 0..U128_MAX; U128_MAX keeps the     *)
(*    property the code relies on: it holds every product of a u64 and a   *)
(*    percentage.                                                          *)
(*  - Optional token accounts are supplied whenever the token path is      *)
(*    taken, and an EntityReputation account exists for every wallet (the  *)
(*    state after init_reputation).                                        *)
(*  - Timestamps last_updated / created_at of reputation records and       *)
(*    emitted events are not state of the model.                           *)
(***************************************************************************)
EXTENDS Integers, Sequences, FiniteSets, TLC

VARIABLES
    escrows,      \* transaction_id -> Escrow account (initialized flag = account exists)
    lamports,     \* account -> native balance
    tokens,       \* account -> balance of the token account it owns
    reputations,  \* wallet -> EntityReputation account
    now,          \* Clock::get()?.unix_timestamp
    result,       \* the last instruction: its accounts and its outcome
    credited,     \* history: transaction_id -> wallet -> units paid to it out of the escrow
    calc,         \* inputs and outputs of the last pure-function evaluation (SpecCalc)
    oracle_registry,  \* the OracleRegistry account (PDA seeded "oracle_registry")
    agents        \* owner -> AgentIdentity account (PDA seeded by the owner's key)

vars == <<escrows, lamports, tokens, reputations, now, result, credited, calc,
          oracle_registry, agents>>

---------------------------------------------------------------------------
(* Program constants *)

MIN_TIME_LOCK == 3600
MAX_TIME_LOCK == 2592000
BASE_DISPUTE_COST == 1000000
MAX_ORACLES == 5
MIN_CONSENSUS_ORACLES == 2
MIN_STAKE_AMOUNT == 100000000
MAX_AGENT_NAME_LENGTH == 32
\* the longest seed of a program-derived address
MAX_SEED_LEN == 32
MAX_SCORE_DEVIATION == 15
MAX_TRANSACTION_ID_LEN == 64

---------------------------------------------------------------------------
(* Bounds of the model *)

\* stand-in for u64::MAX
U64_MAX == 16777215
\* lamports the `init` constraint moves from the payer into a new escrow account
EscrowRent == 3
\* ... into a new AgentIdentity account, into the OracleRegistry account
AgentRent == 2
RegistryRent == 4
\* initial native balances of the three wallets and their token balances
RichLamports == 250000000
ThinLamports == 1000010
PoorLamports == 500000
InitialTokens == 10

U64_MOD == U64_MAX + 1
U16_MOD == 65536
U8_MOD == 256
\* stand-in for u128::MAX: wide enough for u64 * percentage
U128_MAX == U64_MAX * 127

Wallets == {"alice", "bob", "carol"}
TxIds == {"t1", "t2"}
LongId == "0123456789012345678901234567890123456789012345678901234567890123456789"
\* an identifier of 40 characters: within the handler's limit of 64
MidId == "0123456789012345678901234567890123456789"
EscrowPda(transaction_id) == "escrow:" \o transaction_id
EscrowPdas == {EscrowPda(t) : t \in TxIds}
AgentPda(owner) == "agent:" \o owner
AgentPdas == {AgentPda(w) : w \in Wallets}
RegistryPda == "oracle_registry"
Accounts == Wallets \cup EscrowPdas \cup AgentPdas \cup {RegistryPda}

ClockValues == {0, 3600}

\* Inputs of initialize_escrow:
\* <<transaction_id, agent, api, amount, time_lock, use_spl_token>>.
\* The well-formed ones, and one ill-formed argument at a time.
InitializeInputs ==
    {<<"t1", "alice", "bob", 3, 3600, FALSE>>,
     <<"t1", "alice", "bob", 3, 3600, TRUE>>,
     <<"t1", "alice", "bob", 5, 3600, TRUE>>,
     <<"t1", "carol", "bob", 3, 3600, FALSE>>,
     <<"t2", "alice", "bob", 3, 3600, FALSE>>,
     <<"t2", "carol", "bob", 3, 3600, FALSE>>,
     <<"t1", "alice", "bob", 0, 3600, FALSE>>,
     <<"t1", "alice", "bob", 3, 3599, FALSE>>,
     <<"t1", "alice", "bob", 3, 2592001, FALSE>>,
     <<"", "alice", "bob", 3, 3600, FALSE>>,
     <<LongId, "alice", "bob", 3, 3600, FALSE>>,
     <<MidId, "alice", "bob", 3, 3600, FALSE>>,
     <<"t2", "bob", "alice", 3, 2592000, TRUE>>}

\* Inputs of release_funds: <<transaction_id, signer, api>>
ReleaseInputs ==
    {<<"t1", w, a>> : w \in Wallets, a \in {"bob", "carol"}}
    \cup {<<"t2", w, "bob">> : w \in Wallets}

\* Inputs of resolve_dispute:
\* <<transaction_id, agent, api, quality_score, refund_percentage>>
ResolveInputs ==
    {<<"t1", a[1], a[2], s[1], s[2]>> :
        a \in {<<"alice", "bob">>, <<"carol", "bob">>, <<"alice", "carol">>},
        s \in {<<40, 100>>, <<70, 35>>, <<70, 0>>}}
    \cup {<<"t2", "alice", "bob", 40, 100>>, <<"t2", "carol", "bob", 40, 100>>}
\* ... with an argument out of range
BadScoreInputs == {<<101, 0>>, <<40, 101>>}
Verifiers == {"oracle"}

---------------------------------------------------------------------------
(* Data *)

None == [some |-> FALSE, val |-> 0]
Some(v) == [some |-> TRUE, val |-> v]

\* the account before `init`
NoEscrow ==
    [initialized |-> FALSE, agent |-> "", api |-> "", amount |-> 0,
     status |-> "Active", created_at |-> 0, expires_at |-> 0,
     quality_score |-> None, refund_percentage |-> None, token_mint |-> None]

\* the OracleRegistry account before `init`
NoRegistry ==
    [initialized |-> FALSE, admin |-> "", oracles |-> <<>>,
     min_consensus |-> 0, max_score_deviation |-> 0]

\* an AgentIdentity account before `init`
NoAgent ==
    [initialized |-> FALSE, owner |-> "", name |-> "", reputation |-> 0,
     stake_amount |-> 0, is_active |-> FALSE]

\* init_reputation
InitReputation ==
    [total_transactions |-> 0, disputes_filed |-> 0, disputes_won |-> 0,
     disputes_partial |-> 0, disputes_lost |-> 0,
     average_quality_received |-> 0, reputation_score |-> 500]

InitialLamports(w) ==
    CASE w = "alice" -> RichLamports
      [] w = "carol" -> ThinLamports
      [] w = "bob" -> PoorLamports
      [] OTHER -> 0

Min(a, b) == IF a < b THEN a ELSE b

saturating_add(x, y) == Min(x + y, U64_MAX)

saturating_mul(x, y) == Min(x * y, U64_MAX)

saturating_sub(x, y) == IF y > x THEN 0 ELSE x - y

---------------------------------------------------------------------------
(* Helper functions *)

calculate_dispute_cost(reputation) ==
    IF reputation.total_transactions = 0
    THEN BASE_DISPUTE_COST
    ELSE LET dispute_rate ==
                 ((reputation.disputes_filed * 100) % U64_MOD)
                     \div reputation.total_transactions
             multiplier ==
                 IF dispute_rate <= 20 THEN 1
                 ELSE IF dispute_rate <= 40 THEN 2
                 ELSE IF dispute_rate <= 60 THEN 5
                 ELSE 10
         IN  saturating_mul(BASE_DISPUTE_COST, multiplier)

\* `disputes_filed * 100` leaves the range of u64: a panic in a build with
\* overflow checks, a wrapped product in a build without
calculate_dispute_cost_overflow(reputation) ==
    /\ reputation.total_transactions # 0
    /\ reputation.disputes_filed * 100 > U64_MAX

calculate_reputation_score(reputation) ==
    IF reputation.total_transactions = 0
    THEN 500
    ELSE LET tx_score == (Min(reputation.total_transactions, 100) * 5) % U16_MOD
             dispute_score ==
                 IF reputation.disputes_filed > 0
                 THEN LET win_rate ==
                              ((reputation.disputes_won * 100) % U64_MOD)
                                  \div reputation.disputes_filed
                      IN  Min(((win_rate % U16_MOD) * 3) % U16_MOD, 300)
                 ELSE 150
             quality_score ==
                 Min((reputation.average_quality_received * 2) % U16_MOD, 200)
         IN  Min((tx_score + dispute_score + quality_score) % U16_MOD, 1000)

\* an arithmetic operation of calculate_reputation_score leaves the range of
\* its type: a panic in a build with overflow checks, a wrapped value (the
\* one calculate_reputation_score gives) in a build without
calculate_reputation_score_overflow(reputation) ==
    /\ reputation.total_transactions # 0
    /\ LET tx_score == Min(reputation.total_transactions, 100) * 5
           win_rate == ((reputation.disputes_won * 100) % U64_MOD)
                           \div reputation.disputes_filed
           dispute_score ==
               IF reputation.disputes_filed > 0
               THEN Min(((win_rate % U16_MOD) * 3) % U16_MOD, 300)
               ELSE 150
           quality_score == Min(reputation.average_quality_received * 2, 200)
       IN  \/ tx_score >= U16_MOD
           \/ /\ reputation.disputes_filed > 0
              /\ \/ reputation.disputes_won * 100 > U64_MAX
                 \/ (win_rate % U16_MOD) * 3 >= U16_MOD
           \/ reputation.average_quality_received * 2 >= U16_MOD
           \/ tx_score + dispute_score + quality_score >= U16_MOD

\* Result<u8>
Ok(v) == [err |-> "Ok", val |-> v]
Err(e) == [err |-> e, val |-> 0]

\* mutant: the scores are taken in the order given
sort_unstable_skipped(scores) == scores

\* sorted.sort_unstable()
sort_unstable(scores) == SortSeq(scores, LAMBDA a, b : a < b)

\* the scores of `sorted` the filter keeps
valid_scores(sorted, median, max_deviation) ==
    SelectSeq(sorted,
              LAMBDA score :
                  (IF score > median THEN score - median ELSE median - score)
                      <= max_deviation)

\* indices are 0-based in the source: sorted[k] is sorted[k + 1] here
calculate_consensus_score(scores, max_deviation) ==
    IF ~(Len(scores) >= 2) THEN Err("InsufficientOracleConsensus")
    ELSE LET sorted == sort_unstable(scores)
         IN  IF Len(scores) = 2
             THEN Ok((((sorted[1] + sorted[2]) % U16_MOD) \div 2) % U8_MOD)
             ELSE LET median == sorted[Len(sorted) \div 2 + 1]
                      valid == valid_scores(sorted, median, max_deviation)
                  IN  IF ~(Len(valid) >= 2) THEN Err("NoConsensusReached")
                      ELSE Ok(valid[Len(valid) \div 2 + 1])

\* mutant: the second band reaches 65
calculate_refund_from_quality_shifted(quality_score) ==
    IF quality_score \in 0..49 THEN 100
    ELSE IF quality_score \in 50..65 THEN 75
    ELSE IF quality_score \in 66..79 THEN 35
    ELSE IF quality_score \in 80..100 THEN 0
    ELSE 0

calculate_refund_from_quality(quality_score) ==
    IF quality_score \in 0..49 THEN 100
    ELSE IF quality_score \in 50..64 THEN 75
    ELSE IF quality_score \in 65..79 THEN 35
    ELSE IF quality_score \in 80..100 THEN 0
    ELSE 0

\* the running mean folded with one more value, `as u8`
folded_average(reputation, total_transactions, value) ==
    LET total_quality ==
            saturating_add(
                saturating_mul(reputation.average_quality_received,
                               saturating_sub(total_transactions, 1)),
                value)
    IN  (total_quality \div total_transactions) % U8_MOD

update_agent_reputation(reputation, quality_score, refund_percentage) ==
    LET total_transactions == saturating_add(reputation.total_transactions, 1)
        counted == [reputation EXCEPT
                       !.total_transactions = total_transactions,
                       !.average_quality_received =
                           folded_average(reputation, total_transactions, quality_score)]
    IN  IF refund_percentage >= 75
        THEN [counted EXCEPT !.disputes_won = saturating_add(@, 1)]
        ELSE IF refund_percentage >= 25
        THEN [counted EXCEPT !.disputes_partial = saturating_add(@, 1)]
        ELSE [counted EXCEPT !.disputes_lost = saturating_add(@, 1)]

update_api_reputation(reputation, refund_percentage) ==
    LET total_transactions == saturating_add(reputation.total_transactions, 1)
        quality_delivered == saturating_sub(100, refund_percentage)
        counted == [reputation EXCEPT
                       !.total_transactions = total_transactions,
                       !.average_quality_received =
                           folded_average(reputation, total_transactions, quality_delivered)]
    IN  IF refund_percentage <= 25
        THEN [counted EXCEPT !.disputes_won = saturating_add(@, 1)]
        ELSE IF refund_percentage <= 75
        THEN [counted EXCEPT !.disputes_partial = saturating_add(@, 1)]
        ELSE [counted EXCEPT !.disputes_lost = saturating_add(@, 1)]

---------------------------------------------------------------------------
(* Signature verification *)

\* format!("{}:{}", transaction_id, quality_score)
Message(transaction_id, quality_score) ==
    transaction_id \o ":" \o ToString(quality_score)

\* the 64 bytes an Ed25519 key holder produces over a message
Sign(key, message) == [by |-> key, over |-> message]

\* an Ed25519 precompile instruction the runtime has accepted: its data hold
\* one signature, the signing key and the signed message
Ed25519Ix(sig) ==
    [program_id |-> "ed25519", num_signatures |-> 1,
     signature |-> sig, pubkey |-> sig.by, message |-> sig.over]

\* an Ed25519 precompile instruction the runtime has accepted whose offsets
\* carry the index of another instruction: the precompile has verified the
\* bytes of that instruction, and the bytes this instruction holds at the
\* same offsets (the only ones verify_ed25519_signature reads) are whatever
\* the sender of the transaction wrote
Ed25519IxIndirect(signature, pubkey, message) ==
    [program_id |-> "ed25519", num_signatures |-> 1,
     signature |-> signature, pubkey |-> pubkey, message |-> message]

\* resolve_dispute itself is the first instruction of the transaction
MitamaIx ==
    [program_id |-> "mitama", num_signatures |-> 0,
     signature |-> Sign("", ""), pubkey |-> "", message |-> ""]

\* Ok or InvalidSignature
verify_ed25519_signature(ix, signature, verifier_pubkey, message) ==
    /\ ix.program_id = "ed25519"
    /\ ix.num_signatures = 1
    /\ ix.signature = signature
    /\ ix.pubkey = verifier_pubkey
    /\ ix.message = message

---------------------------------------------------------------------------
(* The refund / payment split of resolve_dispute *)

\* mutant: the product taken in 64 bits
checked_mul_u64_wrapping(a, b) == Some((a * b) % U64_MOD)

\* (amount as u128).checked_mul(refund_percentage as u128)
checked_mul_u128(a, b) == IF a * b > U128_MAX THEN None ELSE Some(a * b)

\* ... .checked_div(100)
checked_div_u128(a, b) == IF b = 0 THEN None ELSE Some(a \div b)

\* `as u64`
as_u64(x) == x % U64_MOD

\* refund_amount: None stands for Err(ArithmeticOverflow)
refund_amount(amount, refund_percentage) ==
    LET product == checked_mul_u128(amount, refund_percentage)
    IN  IF ~product.some THEN None
        ELSE LET quotient == checked_div_u128(product.val, 100)
             IN  IF ~quotient.some THEN None ELSE Some(as_u64(quotient.val))

\* payment_amount = amount - refund_amount, a u64 subtraction: None stands
\* for the subtraction underflowing
payment_amount(amount, refund) ==
    IF refund > amount THEN None ELSE Some(amount - refund)

---------------------------------------------------------------------------
(* State *)

\* what the last instruction was, who signed it (for resolve_dispute, which
\* has no signer, its `agent` account) and what it returned
Outcome(op, transaction_id, agent, err) ==
    [op |-> op, transaction_id |-> transaction_id, agent |-> agent, err |-> err]

NoCalc == [fn |-> "none", amount |-> 0, refund_percentage |-> 0,
           refund |-> None, payment |-> None]

Init ==
    /\ escrows = [t \in TxIds |-> NoEscrow]
    /\ lamports = [a \in Accounts |-> InitialLamports(a)]
    /\ tokens = [a \in Accounts |-> IF a \in Wallets THEN InitialTokens ELSE 0]
    /\ reputations = [w \in Wallets |-> InitReputation]
    /\ now = 0
    /\ result = Outcome("none", "", "", "Ok")
    /\ credited = [t \in TxIds |-> [w \in Wallets |-> 0]]
    /\ calc = NoCalc
    /\ oracle_registry = NoRegistry
    /\ agents = [w \in Wallets |-> NoAgent]

\* a lamport or token movement between two accounts
Transfer(balance, from, to, amount) ==
    [balance EXCEPT ![from] = @ - amount, ![to] = @ + amount]

\* the instruction failed: the transaction is rolled back
Fail(outcome) ==
    /\ result' = outcome
    /\ UNCHANGED <<escrows, lamports, tokens, reputations, now, credited, calc, oracle_registry, agents>>

\* mutant: the writes an instruction made before it failed are kept
rollback_skipped(before, written) == written

\* what an account holds after an instruction that wrote `written` into it
\* and then returned an error: the runtime discards the writes
rollback(before, written) == before

\* the clock of the cluster advances; no handler runs
Tick ==
    /\ \E t \in ClockValues : t > now /\ now' = t
    /\ result' = Outcome("tick", "", "", "Ok")
    /\ UNCHANGED <<escrows, lamports, tokens, reputations, credited, calc, oracle_registry, agents>>

---------------------------------------------------------------------------
(* initialize_escrow *)

\* The address of the escrow account is derived from the seeds before the
\* handler runs; the derivation fails for a seed longer than MAX_SEED_LEN.
initialize_escrow_check(transaction_id, agent, amount, time_lock, use_spl_token) ==
    IF Len(transaction_id) > MAX_SEED_LEN THEN "MaxSeedLengthExceeded"
    ELSE IF transaction_id \in TxIds /\ escrows[transaction_id].initialized
        THEN "AccountAlreadyInUse"
    ELSE IF lamports[agent] < EscrowRent THEN "InsufficientFundsForRent"
    ELSE IF ~(amount > 0) THEN "InvalidAmount"
    ELSE IF ~(time_lock >= MIN_TIME_LOCK /\ time_lock <= MAX_TIME_LOCK)
        THEN "InvalidTimeLock"
    ELSE IF ~(Len(transaction_id) # 0
              /\ Len(transaction_id) <= MAX_TRANSACTION_ID_LEN)
        THEN "InvalidTransactionId"
    ELSE IF use_spl_token /\ tokens[agent] < amount THEN "InsufficientFunds"
    ELSE IF ~use_spl_token /\ lamports[agent] - EscrowRent < amount
        THEN "InsufficientFunds"
    ELSE "Ok"

initialize_escrow(transaction_id, agent, api, amount, time_lock, use_spl_token) ==
    LET err == initialize_escrow_check(transaction_id, agent, amount,
                                       time_lock, use_spl_token)
        pda == EscrowPda(transaction_id)
        funded == Transfer(lamports, agent, pda, EscrowRent)
    IN  IF err # "Ok"
        THEN Fail(Outcome("initialize_escrow", transaction_id, agent, err))
        ELSE /\ escrows' = [escrows EXCEPT ![transaction_id] =
                 [initialized |-> TRUE, agent |-> agent, api |-> api,
                  amount |-> amount, status |-> "Active",
                  created_at |-> now, expires_at |-> now + time_lock,
                  quality_score |-> None, refund_percentage |-> None,
                  token_mint |-> IF use_spl_token THEN Some(1) ELSE None]]
             /\ IF use_spl_token
                THEN /\ tokens' = Transfer(tokens, agent, pda, amount)
                     /\ lamports' = funded
                ELSE /\ lamports' = Transfer(funded, agent, pda, amount)
                     /\ tokens' = tokens
             /\ result' = Outcome("initialize_escrow", transaction_id, agent, "Ok")
             /\ UNCHANGED <<reputations, now, credited, calc, oracle_registry, agents>>

---------------------------------------------------------------------------
(* release_funds *)

\* mutant: the lock has expired only after expires_at
time_lock_expired_strict(unix_timestamp, expires_at) == unix_timestamp > expires_at

time_lock_expired(unix_timestamp, expires_at) == unix_timestamp >= expires_at

\* mutant: the TimeLockNotExpired requirement is missing
release_funds_check_unauthorized(status, is_agent, expired) ==
    IF status # "Active" THEN "InvalidStatus"
    ELSE IF ~(is_agent \/ expired) THEN "Unauthorized"
    ELSE "Ok"

\* mutant: a Disputed agreement can be released
release_funds_check_disputed(status, is_agent, expired) ==
    IF status \notin {"Active", "Disputed"} THEN "InvalidStatus"
    ELSE IF ~is_agent /\ ~expired THEN "TimeLockNotExpired"
    ELSE IF ~(is_agent \/ expired) THEN "Unauthorized"
    ELSE "Ok"

\* mutant: the expired time lock frees a Disputed agreement
release_funds_check_expired_dispute(status, is_agent, expired) ==
    IF status # "Active" /\ ~(status = "Disputed" /\ expired) THEN "InvalidStatus"
    ELSE IF ~is_agent /\ ~expired THEN "TimeLockNotExpired"
    ELSE IF ~(is_agent \/ expired) THEN "Unauthorized"
    ELSE "Ok"

release_funds_check(status, is_agent, expired) ==
    IF status # "Active" THEN "InvalidStatus"
    ELSE IF ~is_agent /\ ~expired THEN "TimeLockNotExpired"
    ELSE IF ~(is_agent \/ expired) THEN "Unauthorized"
    ELSE "Ok"

\* the account the transfer of release_funds credits: the `api` account of
\* the instruction (native) or the owner of its `api_token_account` (token)
release_funds_recipient(escrow, api, api_token_account) ==
    IF escrow.token_mint.some THEN api_token_account ELSE api

release_funds(transaction_id, agent, api, api_token_account) ==
    LET escrow == escrows[transaction_id]
        pda == EscrowPda(transaction_id)
        err == IF ~escrow.initialized THEN "AccountNotInitialized"
               ELSE LET e == release_funds_check(escrow.status, agent = escrow.agent,
                                 time_lock_expired(now, escrow.expires_at))
                    IN  IF e # "Ok" THEN e
                        ELSE IF escrow.token_mint.some /\ tokens[pda] < escrow.amount
                            THEN "InsufficientFunds"
                        ELSE IF ~escrow.token_mint.some /\ lamports[pda] < escrow.amount
                            THEN "InsufficientFunds"
                        ELSE "Ok"
        to == release_funds_recipient(escrow, api, api_token_account)
    IN  IF err # "Ok"
        THEN Fail(Outcome("release_funds", transaction_id, agent, err))
        ELSE /\ IF escrow.token_mint.some
                THEN /\ tokens' = Transfer(tokens, pda, to, escrow.amount)
                     /\ lamports' = lamports
                ELSE /\ lamports' = Transfer(lamports, pda, to, escrow.amount)
                     /\ tokens' = tokens
             /\ escrows' = [escrows EXCEPT ![transaction_id].status = "Released"]
             /\ credited' = [credited EXCEPT ![transaction_id][to] = @ + escrow.amount]
             /\ result' = Outcome("release_funds", transaction_id, agent, "Ok")
             /\ UNCHANGED <<reputations, now, calc, oracle_registry, agents>>

---------------------------------------------------------------------------
(* mark_disputed *)

\* mutant: a dispute is still accepted at expires_at
dispute_window_open_inclusive(unix_timestamp, expires_at) ==
    unix_timestamp <= expires_at

dispute_window_open(unix_timestamp, expires_at) == unix_timestamp < expires_at

\* mutant: the payer's balance is compared with the base cost
mark_disputed_check_base_cost(escrow, agent, reputation, unix_timestamp, agent_lamports) ==
    IF escrow.status # "Active" THEN "InvalidStatus"
    ELSE IF agent # escrow.agent THEN "Unauthorized"
    ELSE IF ~dispute_window_open(unix_timestamp, escrow.expires_at)
        THEN "DisputeWindowExpired"
    ELSE IF ~(agent_lamports >= BASE_DISPUTE_COST)
        THEN "InsufficientDisputeFunds"
    ELSE "Ok"

\* mutant: a Released agreement can be disputed
mark_disputed_check_released(escrow, agent, reputation, unix_timestamp, agent_lamports) ==
    IF escrow.status \notin {"Active", "Released"} THEN "InvalidStatus"
    ELSE IF agent # escrow.agent THEN "Unauthorized"
    ELSE IF ~dispute_window_open(unix_timestamp, escrow.expires_at)
        THEN "DisputeWindowExpired"
    ELSE IF ~(agent_lamports >= calculate_dispute_cost(reputation))
        THEN "InsufficientDisputeFunds"
    ELSE "Ok"

mark_disputed_check(escrow, agent, reputation, unix_timestamp, agent_lamports) ==
    IF escrow.status # "Active" THEN "InvalidStatus"
    ELSE IF agent # escrow.agent THEN "Unauthorized"
    ELSE IF ~dispute_window_open(unix_timestamp, escrow.expires_at)
        THEN "DisputeWindowExpired"
    ELSE IF ~(agent_lamports >= calculate_dispute_cost(reputation))
        THEN "InsufficientDisputeFunds"
    ELSE "Ok"

\* the reputation account after a dispute is filed
dispute_filed(reputation) ==
    [reputation EXCEPT !.disputes_filed = saturating_add(@, 1)]

\* the `reputation` account is the PDA seeded by the signer's key
mark_disputed(transaction_id, agent) ==
    LET escrow == escrows[transaction_id]
        reputation == reputations[agent]
        err == IF ~escrow.initialized THEN "AccountNotInitialized"
               ELSE mark_disputed_check(escrow, agent, reputation, now, lamports[agent])
    IN  IF err # "Ok"
        THEN Fail(Outcome("mark_disputed", transaction_id, agent, err))
        ELSE /\ reputations' = [reputations EXCEPT ![agent] = dispute_filed(reputation)]
             /\ escrows' = [escrows EXCEPT ![transaction_id].status = "Disputed"]
             /\ result' = Outcome("mark_disputed", transaction_id, agent, "Ok")
             /\ UNCHANGED <<lamports, tokens, now, credited, calc, oracle_registry, agents>>

---------------------------------------------------------------------------
(* resolve_dispute *)

\* mutant: only a Released agreement is refused
resolve_dispute_check_resettle(status, quality_score, refund_percentage, verified) ==
    IF status = "Released" THEN "InvalidStatus"
    ELSE IF ~(quality_score <= 100) THEN "InvalidQualityScore"
    ELSE IF ~(refund_percentage <= 100) THEN "InvalidRefundPercentage"
    ELSE IF ~verified THEN "InvalidSignature"
    ELSE "Ok"

resolve_dispute_check(status, quality_score, refund_percentage, verified) ==
    IF ~(status = "Active" \/ status = "Disputed") THEN "InvalidStatus"
    ELSE IF ~(quality_score <= 100) THEN "InvalidQualityScore"
    ELSE IF ~(refund_percentage <= 100) THEN "InvalidRefundPercentage"
    ELSE IF ~verified THEN "InvalidSignature"
    ELSE "Ok"

\* the accounts the two lamport credits of resolve_dispute go to: the
\* `agent` and `api` accounts of the instruction
resolve_dispute_refund_to(escrow, agent) == agent

resolve_dispute_payment_to(escrow, api) == api

\* the reputation account after a resolution
transaction_counted(reputation) ==
    LET counted == [reputation EXCEPT !.total_transactions = saturating_add(@, 1)]
    IN  [counted EXCEPT !.reputation_score = calculate_reputation_score(counted)]

\* agent_reputation and api_reputation are the PDAs seeded by the keys of
\* the `agent` and `api` accounts of the instruction (agent # api)
resolve_dispute(transaction_id, agent, api, verifier, quality_score, refund_percentage, signature, ix) ==
    LET escrow == escrows[transaction_id]
        pda == EscrowPda(transaction_id)
        amount == escrow.amount
        check == resolve_dispute_check(escrow.status, quality_score, refund_percentage,
                     verify_ed25519_signature(ix, signature, verifier,
                         Message(transaction_id, quality_score)))
        refund == refund_amount(amount, refund_percentage)
        payment == payment_amount(amount, refund.val)
        refund_to == resolve_dispute_refund_to(escrow, agent)
        payment_to == resolve_dispute_payment_to(escrow, api)
        after_refund == IF refund.val > 0
                        THEN Transfer(lamports, pda, refund_to, refund.val)
                        ELSE lamports
        after_payment == IF payment.val > 0
                         THEN Transfer(after_refund, pda, payment_to, payment.val)
                         ELSE after_refund
        err == IF ~escrow.initialized THEN "AccountNotInitialized"
               ELSE IF check # "Ok" THEN check
               ELSE IF ~refund.some THEN "ArithmeticOverflow"
               ELSE IF ~payment.some THEN "ArithmeticPanic"
               ELSE IF after_refund[pda] < 0 \/ after_payment[pda] < 0
                   THEN "InsufficientLamports"
               ELSE "Ok"
        \* the lamports as written when the handler stopped: the refund is
        \* moved before the payment is attempted
        written == IF err = "InsufficientLamports" /\ after_refund[pda] >= 0
                   THEN after_refund
                   ELSE lamports
    IN  IF err # "Ok"
        THEN /\ result' = Outcome("resolve_dispute", transaction_id, agent, err)
             /\ lamports' = rollback(lamports, written)
             /\ UNCHANGED <<escrows, tokens, reputations, now, credited, calc,
                            oracle_registry, agents>>
        ELSE /\ lamports' = after_payment
             /\ escrows' = [escrows EXCEPT ![transaction_id] =
                    [@ EXCEPT !.status = "Resolved",
                              !.quality_score = Some(quality_score),
                              !.refund_percentage = Some(refund_percentage)]]
             /\ reputations' = [reputations EXCEPT
                    ![agent] = transaction_counted(reputations[agent]),
                    ![api] = transaction_counted(reputations[api])]
             /\ credited' = [credited EXCEPT ![transaction_id] =
                    [w \in Wallets |->
                        @[w] + (IF w = refund_to THEN refund.val ELSE 0)
                             + (IF w = payment_to THEN payment.val ELSE 0)]]
             /\ result' = Outcome("resolve_dispute", transaction_id, agent, "Ok")
             /\ UNCHANGED <<tokens, now, calc, oracle_registry, agents>>

\* the signature and first instruction a caller may supply with
\* resolve_dispute(transaction_id, quality_score) naming `verifier`
ResolveAttempts(transaction_id, quality_score, verifier) ==
    LET good == Sign(verifier, Message(transaction_id, quality_score))
        other_score == Sign(verifier, Message(transaction_id, 0))
        other_key == Sign("mallory", Message(transaction_id, quality_score))
    IN  {<<good, MitamaIx>>,
         <<other_score, Ed25519Ix(other_score)>>,
         <<other_key, Ed25519Ix(other_key)>>,
         <<other_key, Ed25519IxIndirect(other_key, verifier,
                          Message(transaction_id, quality_score))>>}

---------------------------------------------------------------------------
(* Oracle registry *)

\* the identities of a list of OracleConfig
OraclePubkeys(oracles) == {oracles[k].pubkey : k \in 1..Len(oracles)}

initialize_oracle_registry_check(admin, min_consensus, max_score_deviation) ==
    IF oracle_registry.initialized THEN "AccountAlreadyInUse"
    ELSE IF lamports[admin] < RegistryRent THEN "InsufficientFundsForRent"
    ELSE IF ~(min_consensus >= MIN_CONSENSUS_ORACLES) THEN "InsufficientOracleConsensus"
    ELSE IF ~(max_score_deviation <= 50) THEN "InvalidQualityScore"
    ELSE "Ok"

initialize_oracle_registry(admin, min_consensus, max_score_deviation) ==
    LET err == initialize_oracle_registry_check(admin, min_consensus, max_score_deviation)
    IN  IF err # "Ok"
        THEN Fail(Outcome("initialize_oracle_registry", "", admin, err))
        ELSE /\ oracle_registry' =
                    [initialized |-> TRUE, admin |-> admin, oracles |-> <<>>,
                     min_consensus |-> min_consensus,
                     max_score_deviation |-> max_score_deviation]
             /\ lamports' = Transfer(lamports, admin, RegistryPda, RegistryRent)
             /\ result' = Outcome("initialize_oracle_registry", "", admin, "Ok")
             /\ UNCHANGED <<escrows, tokens, reputations, now, credited, calc, agents>>

\* mutant: the registry takes a sixth oracle
add_oracle_check_no_limit(registry, admin, oracle_pubkey, weight) ==
    IF ~registry.initialized THEN "AccountNotInitialized"
    ELSE IF ~(admin = registry.admin) THEN "Unauthorized"
    ELSE IF ~(weight > 0) THEN "InvalidOracleWeight"
    ELSE IF oracle_pubkey \in OraclePubkeys(registry.oracles)
        THEN "DuplicateOracleSubmission"
    ELSE "Ok"

add_oracle_check(registry, admin, oracle_pubkey, weight) ==
    IF ~registry.initialized THEN "AccountNotInitialized"
    ELSE IF ~(admin = registry.admin) THEN "Unauthorized"
    ELSE IF ~(Len(registry.oracles) < MAX_ORACLES) THEN "MaxOraclesReached"
    ELSE IF ~(weight > 0) THEN "InvalidOracleWeight"
    ELSE IF oracle_pubkey \in OraclePubkeys(registry.oracles)
        THEN "DuplicateOracleSubmission"
    ELSE "Ok"

add_oracle(admin, oracle_pubkey, weight) ==
    LET err == add_oracle_check(oracle_registry, admin, oracle_pubkey, weight)
    IN  IF err # "Ok"
        THEN Fail(Outcome("add_oracle", oracle_pubkey, admin, err))
        ELSE /\ oracle_registry' =
                    [oracle_registry EXCEPT !.oracles =
                        Append(@, [pubkey |-> oracle_pubkey, weight |-> weight])]
             /\ result' = Outcome("add_oracle", oracle_pubkey, admin, "Ok")
             /\ UNCHANGED <<escrows, lamports, tokens, reputations, now, credited,
                            calc, agents>>

\* registry.oracles.retain(|o| o.pubkey != oracle_pubkey)
retain(oracles, oracle_pubkey) ==
    SelectSeq(oracles, LAMBDA o : o.pubkey # oracle_pubkey)

\* the OracleNotFound requirement comes after `retain` has rewritten the list
remove_oracle(admin, oracle_pubkey) ==
    LET initial_len == Len(oracle_registry.oracles)
        retained == [oracle_registry EXCEPT !.oracles = retain(@, oracle_pubkey)]
        err == IF ~oracle_registry.initialized THEN "AccountNotInitialized"
               ELSE IF ~(admin = oracle_registry.admin) THEN "Unauthorized"
               ELSE IF ~(Len(retained.oracles) < initial_len) THEN "OracleNotFound"
               ELSE "Ok"
    IN  /\ result' = Outcome("remove_oracle", oracle_pubkey, admin, err)
        /\ oracle_registry' =
               IF err = "Ok" THEN retained
               ELSE IF err = "OracleNotFound" THEN rollback(oracle_registry, retained)
               ELSE oracle_registry
        /\ UNCHANGED <<escrows, lamports, tokens, reputations, now, credited,
                       calc, agents>>

OracleKeys == {"o1", "o2", "o3", "o4", "o5", "o6"}

\* Inputs of initialize_oracle_registry: <<admin, min_consensus, max_score_deviation>>
RegistryInputs ==
    {<<"alice", 2, 15>>, <<"bob", 2, 15>>, <<"alice", 1, 15>>, <<"alice", 2, 51>>}

NextRegistry ==
    \/ \E i \in RegistryInputs : initialize_oracle_registry(i[1], i[2], i[3])
    \/ \E admin \in {"alice", "bob"}, oracle_pubkey \in OracleKeys, weight \in {0, 1} :
          add_oracle(admin, oracle_pubkey, weight)
    \/ \E admin \in {"alice", "bob"}, oracle_pubkey \in OracleKeys :
          remove_oracle(admin, oracle_pubkey)

SpecRegistry == Init /\ [][NextRegistry]_vars

---------------------------------------------------------------------------
(* Agent identities *)

\* the `agent` account is the PDA seeded by the signer's key
create_agent_check(owner, name, stake_amount) ==
    IF agents[owner].initialized THEN "AccountAlreadyInUse"
    ELSE IF lamports[owner] < AgentRent THEN "InsufficientFundsForRent"
    ELSE IF ~(Len(name) # 0 /\ Len(name) <= MAX_AGENT_NAME_LENGTH) THEN "InvalidAgentName"
    ELSE IF ~(stake_amount >= MIN_STAKE_AMOUNT) THEN "InsufficientStake"
    ELSE IF lamports[owner] - AgentRent < stake_amount THEN "InsufficientFunds"
    ELSE "Ok"

create_agent(owner, name, stake_amount) ==
    LET err == create_agent_check(owner, name, stake_amount)
        pda == AgentPda(owner)
    IN  IF err # "Ok"
        THEN Fail(Outcome("create_agent", owner, owner, err))
        ELSE /\ agents' = [agents EXCEPT ![owner] =
                    [initialized |-> TRUE, owner |-> owner, name |-> name,
                     reputation |-> 500, stake_amount |-> stake_amount,
                     is_active |-> TRUE]]
             /\ lamports' = Transfer(Transfer(lamports, owner, pda, AgentRent),
                                     owner, pda, stake_amount)
             /\ result' = Outcome("create_agent", owner, owner, "Ok")
             /\ UNCHANGED <<escrows, tokens, reputations, now, credited, calc,
                            oracle_registry>>

\* mutant: an inactive agent can be deactivated again
deactivate_agent_check_inactive(agent, owner) ==
    IF ~agent.initialized THEN "AccountNotInitialized"
    ELSE IF ~(owner = agent.owner) THEN "Unauthorized"
    ELSE "Ok"

deactivate_agent_check(agent, owner) ==
    IF ~agent.initialized THEN "AccountNotInitialized"
    ELSE IF ~(owner = agent.owner) THEN "Unauthorized"
    ELSE IF ~agent.is_active THEN "AgentNotActive"
    ELSE "Ok"

deactivate_agent(owner) ==
    LET agent == agents[owner]
        pda == AgentPda(owner)
        stake_to_return == agent.stake_amount
        err == LET e == deactivate_agent_check(agent, owner)
               IN  IF e # "Ok" THEN e
                   ELSE IF lamports[pda] < stake_to_return THEN "InsufficientLamports"
                   ELSE "Ok"
    IN  IF err # "Ok"
        THEN Fail(Outcome("deactivate_agent", owner, owner, err))
        ELSE /\ lamports' = Transfer(lamports, pda, owner, stake_to_return)
             /\ agents' = [agents EXCEPT ![owner] =
                    [@ EXCEPT !.is_active = FALSE, !.stake_amount = 0]]
             /\ result' = Outcome("deactivate_agent", owner, owner, "Ok")
             /\ UNCHANGED <<escrows, tokens, reputations, now, credited, calc,
                            oracle_registry>>

\* the `authority` account is a signer; nothing else is required of it
update_agent_rep_check(agent, authority) ==
    IF ~agent.initialized THEN "AccountNotInitialized" ELSE "Ok"

\* agent.reputation after update_agent_rep(delta)
updated_reputation(reputation, delta) ==
    Min(IF delta >= 0
        THEN saturating_add(reputation, delta)
        ELSE saturating_sub(reputation, -delta),
        1000)

\* `agent_owner` names the AgentIdentity account the caller passes
update_agent_rep(agent_owner, authority, delta) ==
    LET agent == agents[agent_owner]
        err == update_agent_rep_check(agent, authority)
    IN  IF err # "Ok"
        THEN Fail(Outcome("update_agent_rep", agent_owner, authority, err))
        ELSE /\ agents' = [agents EXCEPT ![agent_owner].reputation =
                               updated_reputation(@, delta)]
             /\ result' = Outcome("update_agent_rep", agent_owner, authority, "Ok")
             /\ UNCHANGED <<escrows, lamports, tokens, reputations, now, credited,
                            calc, oracle_registry>>

\* Inputs of create_agent: <<owner, name, stake_amount>>
AgentInputs ==
    {<<"alice", "bot", MIN_STAKE_AMOUNT>>,
     <<"alice", "bot", MIN_STAKE_AMOUNT + 7>>,
     <<"alice", "bot", MIN_STAKE_AMOUNT - 1>>,
     <<"alice", "", MIN_STAKE_AMOUNT>>,
     <<"alice", LongId, MIN_STAKE_AMOUNT>>,
     <<"carol", "bot", MIN_STAKE_AMOUNT>>}
Deltas == {-600, -300, 250, 600}

NextAgent ==
    \/ \E i \in AgentInputs : create_agent(i[1], i[2], i[3])
    \/ \E owner \in Wallets : deactivate_agent(owner)
    \/ \E agent_owner \in Wallets, authority \in Wallets, delta \in Deltas :
          update_agent_rep(agent_owner, authority, delta)

SpecAgent == Init /\ [][NextAgent]_vars

---------------------------------------------------------------------------
(* The system *)

Next ==
    \/ Tick
    \/ \E i \in InitializeInputs :
          initialize_escrow(i[1], i[2], i[3], i[4], i[5], i[6])
    \/ \E i \in ReleaseInputs : release_funds(i[1], i[2], i[3], i[3])
    \/ \E transaction_id \in TxIds, agent \in Wallets :
          mark_disputed(transaction_id, agent)
    \/ \E i \in ResolveInputs, verifier \in Verifiers :
          LET good == Sign(verifier, Message(i[1], i[4]))
          IN  resolve_dispute(i[1], i[2], i[3], verifier, i[4], i[5],
                              good, Ed25519Ix(good))
    \/ \E transaction_id \in TxIds, scores \in BadScoreInputs, verifier \in Verifiers :
          LET good == Sign(verifier, Message(transaction_id, scores[1]))
          IN  resolve_dispute(transaction_id, "alice", "bob", verifier,
                              scores[1], scores[2], good, Ed25519Ix(good))
    \/ \E transaction_id \in TxIds, verifier \in Verifiers :
          \E attempt \in ResolveAttempts(transaction_id, 40, verifier) :
             resolve_dispute(transaction_id, "alice", "bob", verifier,
                             40, 100, attempt[1], attempt[2])

Spec == Init /\ [][Next]_vars

---------------------------------------------------------------------------
(* Every instruction of the program, on one agreement *)

ProgramInitializeInputs ==
    {<<"t1", "alice", "bob", 3, 3600, FALSE>>,
     <<"t1", "alice", "bob", 5, 3600, TRUE>>,
     <<"t1", "alice", "bob", 0, 3600, FALSE>>}

\* the identities that sign quality scores: a registered oracle, the payee
ProgramVerifiers == {"o1", "bob"}

NextProgram ==
    \/ Tick
    \/ \E i \in ProgramInitializeInputs :
          initialize_escrow(i[1], i[2], i[3], i[4], i[5], i[6])
    \/ \E agent \in {"alice", "carol"} : release_funds("t1", agent, "bob", "bob")
    \/ \E agent \in {"alice", "bob"} : mark_disputed("t1", agent)
    \/ \E verifier \in ProgramVerifiers :
          LET good == Sign(verifier, Message("t1", 70))
          IN  resolve_dispute("t1", "alice", "bob", verifier, 70, 35,
                              good, Ed25519Ix(good))
    \/ \E verifier \in ProgramVerifiers :
          LET other_key == Sign("mallory", Message("t1", 70))
          IN  resolve_dispute("t1", "alice", "bob", verifier, 70, 35,
                              other_key, Ed25519Ix(other_key))
    \/ \E min_consensus \in {1, 2} :
          initialize_oracle_registry("alice", min_consensus, MAX_SCORE_DEVIATION)
    \/ \E admin \in {"alice", "bob"}, oracle_pubkey \in {"o1", "o2"}, weight \in {0, 1} :
          add_oracle(admin, oracle_pubkey, weight)
    \/ \E admin \in {"alice", "bob"}, oracle_pubkey \in {"o1", "o2"} :
          remove_oracle(admin, oracle_pubkey)
    \/ \E stake_amount \in {MIN_STAKE_AMOUNT - 1, MIN_STAKE_AMOUNT} :
          create_agent("alice", "bot", stake_amount)
    \/ \E owner \in {"alice", "bob"} : deactivate_agent(owner)
    \/ \E agent_owner \in {"alice", "bob"}, delta \in {-600, 600} :
          update_agent_rep(agent_owner, "bob", delta)

SpecProgram == Init /\ [][NextProgram]_vars

---------------------------------------------------------------------------
(* The pure functions, applied to drawn inputs *)

SplitAmounts == {1, 2, 3, 7, 99, 100, 101, 12345, U64_MAX - 1, U64_MAX}

\* lines 707-712 of resolve_dispute on an agreement of `amount`
CalcRefundSplit ==
    /\ calc = NoCalc
    /\ \E amount \in SplitAmounts, refund_percentage \in 0..100 :
          LET refund == refund_amount(amount, refund_percentage)
          IN  calc' = [fn |-> "refund_split", amount |-> amount,
                       refund_percentage |-> refund_percentage,
                       refund |-> refund,
                       payment |-> IF refund.some
                                   THEN payment_amount(amount, refund.val)
                                   ELSE None]
    /\ UNCHANGED <<escrows, lamports, tokens, reputations, now, result, credited,
                 oracle_registry, agents>>

\* counters of an EntityReputation record, of any magnitude
CounterValues == {0, 1, 2, 99, 100, 101, 218, 219, U64_MAX \div 100 + 1, U64_MAX}
AverageValues == {0, 1, 99, 100, 101, 255}

\* calculate_reputation_score on a record with drawn counters
CalcReputationScore ==
    /\ calc = NoCalc
    /\ \E total_transactions \in CounterValues, disputes_filed \in CounterValues,
          disputes_won \in CounterValues, average_quality_received \in AverageValues :
          LET reputation == [InitReputation EXCEPT
                                !.total_transactions = total_transactions,
                                !.disputes_filed = disputes_filed,
                                !.disputes_won = disputes_won,
                                !.average_quality_received = average_quality_received]
          IN  calc' = [fn |-> "reputation_score", reputation |-> reputation,
                       score |-> calculate_reputation_score(reputation),
                       overflow |-> calculate_reputation_score_overflow(reputation)]
    /\ UNCHANGED <<escrows, lamports, tokens, reputations, now, result, credited,
                 oracle_registry, agents>>

DisputeTotals == {0, 1, 3, 10, 100, U64_MAX}
DisputeFiled == {0, 1, 2, 5, 6, 7, 20, 21, 40, 41, 60, 61, 100, 101,
                 U64_MAX \div 100, U64_MAX \div 100 + 1, U64_MAX}

\* calculate_dispute_cost on a record with drawn counters
CalcDisputeCost ==
    /\ calc = NoCalc
    /\ \E total_transactions \in DisputeTotals, disputes_filed \in DisputeFiled,
          disputes_won \in {0, 1} :
          LET reputation == [InitReputation EXCEPT
                                !.total_transactions = total_transactions,
                                !.disputes_filed = disputes_filed,
                                !.disputes_won = disputes_won]
          IN  calc' = [fn |-> "dispute_cost", reputation |-> reputation,
                       cost |-> calculate_dispute_cost(reputation),
                       overflow |-> calculate_dispute_cost_overflow(reputation)]
    /\ UNCHANGED <<escrows, lamports, tokens, reputations, now, result, credited,
                 oracle_registry, agents>>

\* quality scores oracles submit, and the lists of at most MAX_ORACLES of them
Scores == {0, 10, 80, 84, 85, 88, 90, 100}
ScoreLists == UNION {[1..n -> Scores] : n \in 0..MAX_ORACLES}
Deviations == {MAX_SCORE_DEVIATION, 3}

\* calculate_consensus_score on a drawn list of scores
CalcConsensusScore ==
    /\ calc = NoCalc
    /\ \E scores \in ScoreLists, max_deviation \in Deviations :
          calc' = [fn |-> "consensus_score", scores |-> scores,
                   max_deviation |-> max_deviation,
                   result |-> calculate_consensus_score(scores, max_deviation)]
    /\ UNCHANGED <<escrows, lamports, tokens, reputations, now, result, credited,
                 oracle_registry, agents>>

QualityScores == 0..100

\* calculate_refund_from_quality on two drawn quality scores, lower <= higher
CalcRefundFromQuality ==
    /\ calc = NoCalc
    /\ \E lower \in QualityScores, higher \in QualityScores :
          /\ lower <= higher
          /\ calc' = [fn |-> "refund_from_quality", lower |-> lower, higher |-> higher,
                      refund_lower |-> calculate_refund_from_quality(lower),
                      refund_higher |-> calculate_refund_from_quality(higher)]
    /\ UNCHANGED <<escrows, lamports, tokens, reputations, now, result, credited,
                 oracle_registry, agents>>

NextCalc ==
    \/ CalcRefundSplit
    \/ CalcReputationScore
    \/ CalcDisputeCost
    \/ CalcConsensusScore
    \/ CalcRefundFromQuality

SpecCalc == Init /\ [][NextCalc]_vars

---------------------------------------------------------------------------
(* Definitions shared by the properties *)

Terminal(status) == status \in {"Released", "Resolved"}

\* what the escrow account of a transaction holds, native and token units
EscrowHoldings(t) == lamports[EscrowPda(t)] + tokens[EscrowPda(t)]

\* the escrow the last instruction named, when it names one
Called(op) ==
    /\ result'.op = op
    /\ result'.transaction_id \in TxIds
    /\ escrows[result'.transaction_id].initialized

BalancesUnchanged == lamports' = lamports /\ tokens' = tokens

---------------------------------------------------------------------------
(* C1: exactly-once settlement.  An agreement's escrow account has paid out
   nothing (it holds its rent and the whole amount) while the status is
   Active or Disputed, and has paid out exactly `amount`, in units of either
   asset, once the status is Released or Resolved; resolve_dispute on a
   Resolved agreement fails with InvalidStatus and moves no funds. *)
C1_ExactlyOnceSettlement ==
    /\ [](\A t \in TxIds :
            escrows[t].initialized =>
                EscrowHoldings(t) = EscrowRent +
                    (IF Terminal(escrows[t].status) THEN 0 ELSE escrows[t].amount))
    /\ [][(Called("resolve_dispute")
            /\ escrows[result'.transaction_id].status = "Resolved")
          => (result'.err = "InvalidStatus" /\ BalancesUnchanged
              /\ credited' = credited)]_vars

\* a second resolve_dispute was attempted on a Resolved agreement
C1_Witness ==
    /\ result.op = "resolve_dispute"
    /\ result.err = "InvalidStatus"
    /\ escrows[result.transaction_id].status = "Resolved"
    /\ EscrowHoldings(result.transaction_id) = EscrowRent

(* C2: once an agreement is Released or Resolved, every later release_funds,
   mark_disputed or resolve_dispute on it fails with InvalidStatus and the
   record never changes again. *)
C2_TerminalImmutable ==
    [][\A t \in TxIds :
          (escrows[t].initialized /\ Terminal(escrows[t].status)) =>
              /\ escrows'[t] = escrows[t]
              /\ (result'.transaction_id = t
                  /\ result'.op \in {"release_funds", "mark_disputed", "resolve_dispute"})
                 => (result'.err = "InvalidStatus" /\ BalancesUnchanged
                     /\ reputations' = reputations)]_vars

\* a dispute was attempted on a Released agreement
C2_Witness ==
    /\ result.op = "mark_disputed"
    /\ result.err = "InvalidStatus"
    /\ escrows[result.transaction_id].status = "Released"
    /\ result.agent = escrows[result.transaction_id].agent

(* C3: for every amount > 0 and refund_percentage in 0..100 the split is
   refund_amount = floor(amount * refund_percentage / 100) and
   payment_amount = amount - refund_amount: the two add up to amount, the
   refund does not exceed amount, and neither the checked multiplication nor
   the subtraction fails, up to the largest amount. *)
C3_ExactSplit ==
    calc.fn = "refund_split" =>
        /\ calc.refund.some
        /\ calc.payment.some
        /\ calc.refund.val * 100 <= calc.amount * calc.refund_percentage
        /\ calc.amount * calc.refund_percentage < (calc.refund.val + 1) * 100
        /\ calc.payment.val = calc.amount - calc.refund.val
        /\ calc.refund.val + calc.payment.val = calc.amount
        /\ calc.refund.val <= calc.amount

\* the largest amount split with a remainder
C3_Witness ==
    /\ calc.fn = "refund_split"
    /\ calc.amount = U64_MAX
    /\ calc.refund_percentage = 33
    /\ calc.refund.some
    /\ calc.refund.val * 100 # calc.amount * calc.refund_percentage
    /\ calc.payment.val > 0

(* C4: a successful resolve_dispute credits the refund to the payer recorded
   in the agreement and the payment to its recorded payee, and no other
   account, whatever accounts the caller supplies. *)
C4_ResolveCreditsRecordedParties ==
    \A t \in TxIds :
        (escrows[t].initialized /\ escrows[t].status = "Resolved") =>
            LET e == escrows[t]
                refund == (e.amount * e.refund_percentage.val) \div 100
            IN  \A w \in Wallets :
                    credited[t][w] = (IF w = e.agent THEN refund ELSE 0)
                                   + (IF w = e.api THEN e.amount - refund ELSE 0)

(* C5: a successful release_funds transfers the full amount to the payee
   recorded in the agreement and to nobody else, whoever calls it. *)
C5_ReleasePaysRecordedPayee ==
    \A t \in TxIds :
        (escrows[t].initialized /\ escrows[t].status = "Released") =>
            \A w \in Wallets :
                credited[t][w] = IF w = escrows[t].api THEN escrows[t].amount ELSE 0

(* C6: on an Active agreement release_funds succeeds exactly when the caller
   is the recorded payer or now >= expires_at, the time being that of the
   call; the passing of time alone changes no agreement and no balance. *)
C6_ReleaseAuthorization ==
    /\ [][(Called("release_funds")
            /\ escrows[result'.transaction_id].status = "Active")
          => /\ now' = now
             /\ (result'.err = "Ok") <=>
                    (\/ result'.agent = escrows[result'.transaction_id].agent
                     \/ now >= escrows[result'.transaction_id].expires_at)
             /\ (result'.err = "Ok") <=>
                    (escrows'[result'.transaction_id].status = "Released")]_vars
    /\ [][result'.op = "tick" => (escrows' = escrows /\ BalancesUnchanged)]_vars

\* somebody other than the payer released the funds exactly at expires_at
C6_Witness ==
    /\ result.op = "release_funds"
    /\ result.err = "Ok"
    /\ result.agent # escrows[result.transaction_id].agent
    /\ now = escrows[result.transaction_id].expires_at
    /\ escrows[result.transaction_id].status = "Released"

(* C7 as stated: release_funds on an Active agreement by a caller who is not
   the payer while now < expires_at fails with Unauthorized and changes
   neither the agreement nor any balance. *)
C7_EarlyReleaseUnauthorized ==
    [][(Called("release_funds")
         /\ escrows[result'.transaction_id].status = "Active"
         /\ result'.agent # escrows[result'.transaction_id].agent
         /\ now < escrows[result'.transaction_id].expires_at)
       => (result'.err = "Unauthorized" /\ escrows' = escrows
           /\ BalancesUnchanged)]_vars

(* C7 amended: that call fails with TimeLockNotExpired, leaving the status
   Active and every balance unchanged. *)
C7_EarlyReleaseTimeLockNotExpired ==
    [][(Called("release_funds")
         /\ escrows[result'.transaction_id].status = "Active"
         /\ result'.agent # escrows[result'.transaction_id].agent
         /\ now < escrows[result'.transaction_id].expires_at)
       => (result'.err = "TimeLockNotExpired" /\ escrows' = escrows
           /\ BalancesUnchanged)]_vars

\* a third party tried to release an Active agreement before it expired
C7_Witness ==
    /\ result.op = "release_funds"
    /\ result.err = "TimeLockNotExpired"
    /\ escrows[result.transaction_id].status = "Active"
    /\ result.agent # escrows[result.transaction_id].agent
    /\ now < escrows[result.transaction_id].expires_at

(* C8: mark_disputed succeeds only on an Active agreement, called by the
   recorded payer while now < expires_at.  It fails with InvalidStatus from
   any other status, with Unauthorized when an Active agreement is disputed
   by another caller, with DisputeWindowExpired when the payer disputes an
   Active agreement at now >= expires_at; a failure changes neither the
   agreement nor any reputation record. *)
C8_MarkDisputedGuards ==
    [][Called("mark_disputed") =>
          LET e == escrows[result'.transaction_id]
              caller == result'.agent
          IN  /\ result'.err = "Ok" =>
                    (e.status = "Active" /\ caller = e.agent /\ now < e.expires_at)
              /\ e.status # "Active" => result'.err = "InvalidStatus"
              /\ (e.status = "Active" /\ caller # e.agent)
                    => result'.err = "Unauthorized"
              /\ (e.status = "Active" /\ caller = e.agent /\ now >= e.expires_at)
                    => result'.err = "DisputeWindowExpired"
              /\ result'.err # "Ok" =>
                    (escrows' = escrows /\ reputations' = reputations)]_vars

\* the payer's dispute was refused exactly at expires_at
C8_Witness ==
    /\ result.op = "mark_disputed"
    /\ result.err = "DisputeWindowExpired"
    /\ escrows[result.transaction_id].status = "Active"
    /\ result.agent = escrows[result.transaction_id].agent
    /\ now = escrows[result.transaction_id].expires_at

(* C9: when the payer of an Active agreement disputes it in time,
   mark_disputed fails with InsufficientDisputeFunds, changing nothing, if
   the payer's balance is below calculate_dispute_cost of the payer's own
   reputation record; otherwise it succeeds, adds exactly 1 to that record's
   disputes_filed, leaves every other record alone and moves the agreement
   from Active to Disputed. *)
C9_DisputeFunds ==
    [][(Called("mark_disputed")
         /\ escrows[result'.transaction_id].status = "Active"
         /\ result'.agent = escrows[result'.transaction_id].agent
         /\ now < escrows[result'.transaction_id].expires_at)
       => LET t == result'.transaction_id
              payer == result'.agent
          IN  IF lamports[payer] < calculate_dispute_cost(reputations[payer])
              THEN /\ result'.err = "InsufficientDisputeFunds"
                   /\ escrows' = escrows
                   /\ reputations' = reputations
                   /\ BalancesUnchanged
              ELSE /\ result'.err = "Ok"
                   /\ reputations'[payer].disputes_filed =
                          reputations[payer].disputes_filed + 1
                   /\ \A w \in Wallets \ {payer} : reputations'[w] = reputations[w]
                   /\ escrows'[t].status = "Disputed"
                   /\ \A u \in TxIds \ {t} : escrows'[u] = escrows[u]]_vars

\* a payer who holds the base cost was refused because of the multiplier
C9_Witness ==
    /\ result.op = "mark_disputed"
    /\ result.err = "InsufficientDisputeFunds"
    /\ lamports[result.agent] >= BASE_DISPUTE_COST
    /\ escrows[result.transaction_id].status = "Active"

(* C10: a successful mark_disputed decreases the payer's balance by
   calculate_dispute_cost of the payer's reputation record. *)
C10_DisputeFeeCharged ==
    [][(Called("mark_disputed") /\ result'.err = "Ok")
       => lamports'[result'.agent] =
              lamports[result'.agent]
                  - calculate_dispute_cost(reputations[result'.agent])]_vars

\* resolve_dispute(i) with the verifier's signature over this call's message
SignedResolve(i, verifier) ==
    LET good == Sign(verifier, Message(i[1], i[4]))
    IN  /\ escrows[i[1]].initialized
        /\ resolve_dispute(i[1], i[2], i[3], verifier, i[4], i[5], good, Ed25519Ix(good))

(* C11: resolve_dispute with quality_score <= 100, refund_percentage <= 100
   and a verified signature succeeds exactly when the status is Active or
   Disputed; on success the status becomes Resolved and quality_score and
   refund_percentage are stored equal to the arguments; in every reachable
   state the two are present if and only if the status is Resolved. *)
C11_ResolveFromActiveOrDisputed ==
    /\ [](\A t \in TxIds :
            escrows[t].initialized =>
                /\ escrows[t].quality_score.some <=> (escrows[t].status = "Resolved")
                /\ escrows[t].refund_percentage.some <=> (escrows[t].status = "Resolved"))
    /\ [][\A i \in ResolveInputs, verifier \in Verifiers :
            SignedResolve(i, verifier) =>
                /\ (result'.err = "Ok") <=> (escrows[i[1]].status \in {"Active", "Disputed"})
                /\ result'.err = "Ok" =>
                      /\ escrows'[i[1]].status = "Resolved"
                      /\ escrows'[i[1]].quality_score = Some(i[4])
                      /\ escrows'[i[1]].refund_percentage = Some(i[5])]_vars

\* C11 on the agreements that escrow lamports
C11_NativeResolveFromActiveOrDisputed ==
    /\ [](\A t \in TxIds :
            escrows[t].initialized =>
                /\ escrows[t].quality_score.some <=> (escrows[t].status = "Resolved")
                /\ escrows[t].refund_percentage.some <=> (escrows[t].status = "Resolved"))
    /\ [][\A i \in ResolveInputs, verifier \in Verifiers :
            (SignedResolve(i, verifier) /\ ~escrows[i[1]].token_mint.some) =>
                /\ (result'.err = "Ok") <=> (escrows[i[1]].status \in {"Active", "Disputed"})
                /\ result'.err = "Ok" =>
                      /\ escrows'[i[1]].status = "Resolved"
                      /\ escrows'[i[1]].quality_score = Some(i[4])
                      /\ escrows'[i[1]].refund_percentage = Some(i[5])]_vars

\* the status changes of agreement t in a step
StatusChange(t) == <<escrows[t].status, escrows'[t].status>>

(* C12 as stated: each change of an agreement's status is one of
   Active -> Released, Active -> Disputed, Disputed -> Resolved. *)
C12_StatusChanges ==
    [][\A t \in TxIds :
          (escrows[t].initialized /\ escrows'[t].status # escrows[t].status) =>
              StatusChange(t) \in {<<"Active", "Released">>, <<"Active", "Disputed">>,
                                   <<"Disputed", "Resolved">>}]_vars

(* C12 amended: each change of an agreement's status is one of
   Active -> Released, Active -> Disputed, Active -> Resolved,
   Disputed -> Resolved; an agreement exists from its creation on and is
   created Active. *)
C12_StatusChangesWithActiveResolved ==
    [][\A t \in TxIds :
          /\ escrows[t].initialized => escrows'[t].initialized
          /\ (~escrows[t].initialized /\ escrows'[t].initialized)
                => escrows'[t].status = "Active"
          /\ (escrows[t].initialized /\ escrows'[t].status # escrows[t].status) =>
              StatusChange(t) \in {<<"Active", "Released">>, <<"Active", "Disputed">>,
                                   <<"Active", "Resolved">>, <<"Disputed", "Resolved">>}]_vars

\* an agreement was resolved although no dispute was ever filed
C12_Witness ==
    /\ result.op = "resolve_dispute"
    /\ result.err = "Ok"
    /\ escrows[result.transaction_id].status = "Resolved"
    /\ \A w \in Wallets : reputations[w].disputes_filed = 0

\* `signature` is what the holder of the verifier's key produces over the
\* message of resolve_dispute(transaction_id, quality_score)
SignedByVerifier(signature, verifier, transaction_id, quality_score) ==
    signature = Sign(verifier, Message(transaction_id, quality_score))

(* C13: resolve_dispute succeeds only if the supplied signature is the
   verifier's signature over the message (transaction_id, quality_score) of
   this agreement and this call; when it is not, the call on an Active or
   Disputed agreement fails with InvalidSignature and changes no balance, no
   agreement and no reputation record. *)
C13_SignatureRequired ==
    [][\A t \in TxIds, verifier \in Verifiers :
          \A attempt \in ResolveAttempts(t, 40, verifier) :
             (/\ escrows[t].initialized
              /\ escrows[t].status \in {"Active", "Disputed"}
              /\ resolve_dispute(t, "alice", "bob", verifier, 40, 100,
                                 attempt[1], attempt[2])
              /\ ~SignedByVerifier(attempt[1], verifier, t, 40))
             => /\ result'.err = "InvalidSignature"
                /\ escrows' = escrows
                /\ reputations' = reputations
                /\ BalancesUnchanged]_vars

(* C14: in every Resolved agreement refund_percentage is
   calculate_refund_from_quality(quality_score), and a resolve_dispute call
   whose refund_percentage differs from that value does not settle the
   agreement. *)
C14_RefundFromQuality ==
    /\ [](\A t \in TxIds :
            (escrows[t].initialized /\ escrows[t].status = "Resolved") =>
                escrows[t].refund_percentage.val =
                    calculate_refund_from_quality(escrows[t].quality_score.val))
    /\ [][\A i \in ResolveInputs, verifier \in Verifiers :
            (SignedResolve(i, verifier)
             /\ i[5] # calculate_refund_from_quality(i[4]))
            => (result'.err # "Ok" /\ escrows' = escrows /\ BalancesUnchanged)]_vars

\* the fields of a reputation record that carry the outcomes of resolutions
OutcomeFields(reputation) ==
    <<reputation.average_quality_received, reputation.disputes_won,
      reputation.disputes_partial, reputation.disputes_lost>>

(* C15: after a successful resolve_dispute naming the recorded parties, the
   requester's record has its average_quality_received folded with
   quality_score and exactly one of disputes_won / disputes_partial /
   disputes_lost incremented by the refund_percentage bucket (>= 75, 25..74,
   < 25); the provider's average is folded with 100 - refund_percentage and
   one of its buckets incremented with the inverted thresholds. *)
C15_ResolveRecordsOutcome ==
    [][\A i \in ResolveInputs, verifier \in Verifiers :
          (/\ SignedResolve(i, verifier)
           /\ result'.err = "Ok"
           /\ i[2] = escrows[i[1]].agent
           /\ i[3] = escrows[i[1]].api)
          => /\ OutcomeFields(reputations'[i[2]]) =
                    OutcomeFields(update_agent_reputation(reputations[i[2]], i[4], i[5]))
             /\ OutcomeFields(reputations'[i[3]]) =
                    OutcomeFields(update_api_reputation(reputations[i[3]], i[5]))]_vars

(* C16: calculate_reputation_score returns a value within [0, 1000] without
   arithmetic overflow for every combination of counters, of any magnitude,
   disputes_won > disputes_filed included, and every 8-bit average. *)
C16_ReputationScoreNoOverflow ==
    calc.fn = "reputation_score" =>
        /\ calc.score \in 0..1000
        /\ ~calc.overflow

\* C16, the stored scores: reputation_score is within [0, 1000] in every
\* reachable state of the program
C16_StoredScoreInRange ==
    \A w \in Wallets : reputations[w].reputation_score \in 0..1000

\* the multiplier the cost policy gives a dispute rate
RateMultiplier(rate) ==
    IF rate <= 20 THEN 1 ELSE IF rate <= 40 THEN 2 ELSE IF rate <= 60 THEN 5 ELSE 10

\* BASE_DISPUTE_COST times the multiplier of floor(disputes_filed * 100 /
\* total_transactions), the base cost when there are no transactions
PolicyCost(reputation) ==
    IF reputation.total_transactions = 0
    THEN BASE_DISPUTE_COST
    ELSE BASE_DISPUTE_COST *
             RateMultiplier((reputation.disputes_filed * 100)
                                \div reputation.total_transactions)

(* C17: calculate_dispute_cost returns BASE_DISPUTE_COST times the
   multiplier of rate = floor(disputes_filed * 100 / total_transactions):
   1 for rate 0..20, 2 for 21..40, 5 for 41..60, 10 above 60, rates above
   100 included, and the base cost when total_transactions = 0; (10, 2)
   gives multiplier 1 and (10, 5) multiplier 5. *)
C17_DisputeCostPolicy ==
    calc.fn = "dispute_cost" =>
        /\ ~calc.overflow
        /\ calc.cost = PolicyCost(calc.reputation)

\* C17 on the records whose disputes_filed * 100 is a u64
C17_DisputeCostPolicyInRange ==
    (calc.fn = "dispute_cost" /\ calc.reputation.disputes_filed * 100 <= U64_MAX) =>
        /\ ~calc.overflow
        /\ calc.cost = PolicyCost(calc.reputation)

\* the scores in ascending order
Ascending(scores) == SortSeq(scores, LAMBDA a, b : a < b)

\* |a - b|
Distance(a, b) == IF a > b THEN a - b ELSE b - a

\* the median the consensus example takes: the middle element of the sorted
\* list, the lower of the two middle ones when their number is even (the
\* median of {84, 85, 88, 90} is 85)
Median(sorted) == sorted[(Len(sorted) + 1) \div 2]

\* the scores within max_deviation of the median of all scores
WithinDeviation(scores, max_deviation) ==
    LET sorted == Ascending(scores)
    IN  SelectSeq(sorted, LAMBDA score : Distance(score, Median(sorted)) <= max_deviation)

(* C18: for the scores [10, 84, 85, 88, 90] with max_score_deviation = 15,
   calculate_consensus_score takes median 85, keeps {84, 85, 88, 90} and
   returns 85; for three or more scores a result is the median of the scores
   that lie within max_score_deviation of the median of all scores. *)
C18_ConsensusIsMedianOfKept ==
    (calc.fn = "consensus_score" /\ Len(calc.scores) >= 3) =>
        LET kept == WithinDeviation(calc.scores, calc.max_deviation)
        IN  /\ (calc.scores = <<10, 84, 85, 88, 90>>
                /\ calc.max_deviation = MAX_SCORE_DEVIATION)
               => (/\ Median(Ascending(calc.scores)) = 85
                   /\ kept = <<84, 85, 88, 90>>
                   /\ calc.result = Ok(85))
            /\ calc.result.err = "Ok" => calc.result.val = Median(kept)

\* the scores within max_deviation of the middle sorted element
Surviving(scores, max_deviation) ==
    LET sorted == Ascending(scores)
        middle == sorted[Len(sorted) \div 2 + 1]
    IN  {i \in 1..Len(scores) : Distance(scores[i], middle) <= max_deviation}

(* C19: calculate_consensus_score, for every list of scores in 0..100 taken
   in any order: fails with InsufficientOracleConsensus when fewer than two
   scores are given; returns floor((a + b) / 2) for exactly two scores, with
   no deviation check; for three or more scores fails with NoConsensusReached
   when fewer than two scores lie within max_score_deviation of the middle
   sorted element, and otherwise returns one of the surviving scores. *)
C19_ConsensusCases ==
    calc.fn = "consensus_score" =>
        LET scores == calc.scores
            surviving == Surviving(scores, calc.max_deviation)
        IN  /\ Len(scores) < 2 => calc.result = Err("InsufficientOracleConsensus")
            /\ Len(scores) = 2 => calc.result = Ok((scores[1] + scores[2]) \div 2)
            /\ Len(scores) >= 3 =>
                  IF Cardinality(surviving) < 2
                  THEN calc.result = Err("NoConsensusReached")
                  ELSE /\ calc.result.err = "Ok"
                       /\ \E i \in surviving : calc.result.val = scores[i]

\* three unsorted scores of which only the middle one survives
C19_Witness ==
    /\ calc.fn = "consensus_score"
    /\ calc.scores = <<100, 10, 84>>
    /\ calc.max_deviation = MAX_SCORE_DEVIATION
    /\ calc.result = Err("NoConsensusReached")

\* what the program returns on the consensus example
C18_ExampleResult ==
    /\ calc.fn = "consensus_score"
    /\ calc.scores = <<10, 84, 85, 88, 90>>
    /\ calc.max_deviation = MAX_SCORE_DEVIATION
    /\ calc.result = Ok(88)

(* C20: calculate_refund_from_quality maps every quality score 0..49 to
   refund 100, 50..64 to 75, 65..79 to 35 and 80..100 to 0 (so 40 -> 100,
   60 -> 75, 70 -> 35, 95 -> 0), with no other output value, and the refund
   never increases when the quality score increases. *)
C20_RefundTable ==
    calc.fn = "refund_from_quality" =>
        /\ calc.lower <= 49 => calc.refund_lower = 100
        /\ (50 <= calc.lower /\ calc.lower <= 64) => calc.refund_lower = 75
        /\ (65 <= calc.lower /\ calc.lower <= 79) => calc.refund_lower = 35
        /\ (80 <= calc.lower /\ calc.lower <= 100) => calc.refund_lower = 0
        /\ calc.lower = 40 => calc.refund_lower = 100
        /\ calc.lower = 60 => calc.refund_lower = 75
        /\ calc.lower = 70 => calc.refund_lower = 35
        /\ calc.lower = 95 => calc.refund_lower = 0
        /\ calc.refund_lower \in {100, 75, 35, 0}
        /\ calc.refund_higher <= calc.refund_lower

\* the two scores on either side of the 64 / 65 boundary
C20_Witness ==
    /\ calc.fn = "refund_from_quality"
    /\ calc.lower = 64
    /\ calc.higher = 65
    /\ calc.refund_lower = 75
    /\ calc.refund_higher = 35

(* C21: after any sequence of add_oracle and remove_oracle calls the registry
   holds at most 5 oracles, with pairwise distinct identities and every weight
   > 0; add_oracle fails, leaving the registry unchanged, when the caller is
   not the admin, when the registry already holds 5 oracles, when the weight
   is 0, or when the identity is already present; remove_oracle of an identity
   that is not present fails with OracleNotFound leaving the registry
   unchanged. *)
C21_RegistryWellFormed ==
    /\ [](LET oracles == oracle_registry.oracles
          IN  /\ Len(oracles) <= MAX_ORACLES
              /\ \A j, k \in 1..Len(oracles) :
                    oracles[j].pubkey = oracles[k].pubkey => j = k
              /\ \A k \in 1..Len(oracles) : oracles[k].weight > 0)
    /\ [][(result'.op = "add_oracle" /\ oracle_registry.initialized) =>
            /\ (\/ result'.agent # oracle_registry.admin
                \/ Len(oracle_registry.oracles) >= MAX_ORACLES
                \/ result'.transaction_id \in OraclePubkeys(oracle_registry.oracles))
               => (result'.err # "Ok" /\ oracle_registry' = oracle_registry)
            /\ result'.err # "Ok" => oracle_registry' = oracle_registry]_vars
    /\ [][\A admin \in {"alice", "bob"}, oracle_pubkey \in OracleKeys :
            (add_oracle(admin, oracle_pubkey, 0) /\ oracle_registry.initialized)
            => (result'.err # "Ok" /\ oracle_registry' = oracle_registry)]_vars
    /\ [][(/\ result'.op = "remove_oracle"
           /\ oracle_registry.initialized
           /\ result'.agent = oracle_registry.admin
           /\ result'.transaction_id \notin OraclePubkeys(oracle_registry.oracles))
          => (result'.err = "OracleNotFound" /\ oracle_registry' = oracle_registry)]_vars

\* a sixth oracle was refused by a full registry
C21_Witness ==
    /\ result.op = "add_oracle"
    /\ result.err = "MaxOraclesReached"
    /\ Len(oracle_registry.oracles) = MAX_ORACLES
    /\ result.transaction_id \notin OraclePubkeys(oracle_registry.oracles)

(* C22: every instruction is all-or-nothing.  An initialize_escrow,
   release_funds, mark_disputed, resolve_dispute, add_oracle, remove_oracle,
   create_agent, deactivate_agent or update_agent_rep that returns an error
   leaves every agreement, reputation record, registry, agent and balance as
   it was, also when the handler had written before it failed; and no step
   moves funds out of an escrow account while leaving the agreement's status
   as it was. *)
C22_AllOrNothing ==
    [][/\ result'.err # "Ok" =>
            /\ escrows' = escrows /\ reputations' = reputations
            /\ oracle_registry' = oracle_registry /\ agents' = agents
            /\ BalancesUnchanged /\ credited' = credited
       /\ \A t \in TxIds :
            (escrows[t].initialized /\ escrows'[t].status = escrows[t].status)
                => (lamports'[EscrowPda(t)] = lamports[EscrowPda(t)]
                    /\ tokens'[EscrowPda(t)] = tokens[EscrowPda(t)])]_vars

\* resolve_dispute failed on its second transfer, after the refund had been
\* moved out of the escrow account, and the refund is back in the account
C22_Witness ==
    /\ result.op = "resolve_dispute"
    /\ result.err = "InsufficientLamports"
    /\ escrows["t1"].status = "Disputed"
    /\ refund_amount(escrows["t1"].amount, 35).val \in 1..(lamports[EscrowPda("t1")])
    /\ lamports[EscrowPda("t1")] = EscrowRent

(* C23: operations on different agreements are independent.  Whenever a
   wallet can dispute one agreement (mark_disputed succeeds) while another
   agreement in which it is payer or payee can be resolved, the wallet's
   reputation record, reputation_score included, is the same after
   "dispute, then resolve" as after "resolve, then dispute". *)
C23_OperationsCommute ==
    \A a \in TxIds, b \in TxIds, w \in Wallets :
        (/\ a # b
         /\ escrows[a].initialized /\ escrows[b].initialized
         /\ mark_disputed_check(escrows[a], w, reputations[w], now, lamports[w]) = "Ok"
         /\ escrows[b].status \in {"Active", "Disputed"}
         /\ w \in {escrows[b].agent, escrows[b].api})
        => transaction_counted(dispute_filed(reputations[w]))
               = dispute_filed(transaction_counted(reputations[w]))

\* the two orders were both taken: the same counters with different scores
C23_DisputeThenResolve ==
    /\ escrows["t1"].status = "Disputed" /\ escrows["t2"].status = "Resolved"
    /\ escrows["t1"].agent = "alice" /\ escrows["t2"].agent = "alice"
    /\ reputations["alice"].total_transactions = 1
    /\ reputations["alice"].disputes_filed = 1
    /\ reputations["alice"].reputation_score = 5

C23_ResolveThenDispute ==
    /\ escrows["t1"].status = "Disputed" /\ escrows["t2"].status = "Resolved"
    /\ escrows["t1"].agent = "alice" /\ escrows["t2"].agent = "alice"
    /\ reputations["alice"].total_transactions = 1
    /\ reputations["alice"].disputes_filed = 1
    /\ reputations["alice"].reputation_score = 155

\* the stated conditions of initialize_escrow on its arguments
InitializeConditions(i) ==
    /\ i[4] > 0
    /\ i[5] >= 3600 /\ i[5] <= 2592000
    /\ Len(i[1]) # 0 /\ Len(i[1]) <= 64
    /\ ~(i[1] \in TxIds /\ escrows[i[1]].initialized)

\* what a call of initialize_escrow with input i does, given the errors a
\* call whose arguments do not meet the conditions may return
InitializeEscrowContract(i, errors) ==
    initialize_escrow(i[1], i[2], i[3], i[4], i[5], i[6]) =>
        /\ result'.err = "Ok" =>
              /\ InitializeConditions(i)
              /\ escrows'[i[1]].initialized /\ escrows'[i[1]].status = "Active"
              /\ escrows'[i[1]].amount = i[4]
              /\ escrows'[i[1]].agent = i[2] /\ escrows'[i[1]].api = i[3]
              /\ escrows'[i[1]].expires_at = escrows'[i[1]].created_at + i[5]
              /\ lamports'[EscrowPda(i[1])] + tokens'[EscrowPda(i[1])] = EscrowRent + i[4]
              /\ \A t \in TxIds \ {i[1]} : escrows'[t] = escrows[t]
        /\ ~InitializeConditions(i) => result'.err \in errors
        /\ result'.err # "Ok" => (escrows' = escrows /\ BalancesUnchanged)

(* C24: initialize_escrow succeeds only when amount > 0, time_lock is within
   [3600, 2592000], the identifier is non-empty, at most 64 characters long
   and unused; on success the new record is Active with the given amount and
   parties, expires_at = created_at + time_lock and exactly `amount` is held
   by the escrow account on top of its rent; otherwise it fails with
   InvalidAmount, InvalidTimeLock, InvalidTransactionId or the uniqueness
   failure, and no record is created or overwritten. *)
C24_InitializeEscrowGuards ==
    [][\A i \in InitializeInputs :
          InitializeEscrowContract(i,
              {"InvalidAmount", "InvalidTimeLock", "InvalidTransactionId",
               "AccountAlreadyInUse"})]_vars

\* the same, with the failure of the address derivation among the errors
C24_InitializeEscrowGuardsWithSeedError ==
    [][\A i \in InitializeInputs :
          InitializeEscrowContract(i,
              {"InvalidAmount", "InvalidTimeLock", "InvalidTransactionId",
               "AccountAlreadyInUse", "MaxSeedLengthExceeded"})]_vars

(* C25: an agent's reputation is adjusted only by an authorized caller.
   No authority is recorded for an agent, so every signer of the model is
   the agent's own owner or an arbitrary third party: update_agent_rep on
   an existing agent, signed by any of them, fails and leaves the agent's
   reputation as it was. *)
C25_ReputationAuthority ==
    [][\A agent_owner \in Wallets, authority \in Wallets, delta \in Deltas :
          (update_agent_rep(agent_owner, authority, delta)
           /\ agents[agent_owner].initialized)
          => (result'.err # "Ok"
              /\ agents'[agent_owner].reputation = agents[agent_owner].reputation)]_vars

\* a third party has raised an agent's reputation to the maximum
C25_ThirdPartyRaisedReputation ==
    /\ result.op = "update_agent_rep"
    /\ result.err = "Ok"
    /\ result.agent # agents[result.transaction_id].owner
    /\ agents[result.transaction_id].reputation = 1000

(* C26: the stake of an agent is returned in full and at most once.
   deactivate_agent by the owner of an active agent returns exactly the
   recorded stake_amount, which is at least MIN_STAKE_AMOUNT, to the owner
   and sets stake_amount to 0 and is_active to false; deactivate_agent on an
   inactive agent fails with AgentNotActive and moves nothing; and in every
   state an owner's balance is its initial balance less the rent and the
   stake its agent account still records, so the total returned never
   exceeds the total staked. *)
C26_StakeReturnedOnce ==
    /\ [][\A owner \in Wallets :
            (deactivate_agent(owner) /\ agents[owner].initialized) =>
                IF agents[owner].is_active
                THEN /\ result'.err = "Ok"
                     /\ agents[owner].stake_amount >= MIN_STAKE_AMOUNT
                     /\ lamports'[owner] = lamports[owner] + agents[owner].stake_amount
                     /\ lamports'[AgentPda(owner)] =
                            lamports[AgentPda(owner)] - agents[owner].stake_amount
                     /\ agents'[owner].stake_amount = 0
                     /\ ~agents'[owner].is_active
                ELSE /\ result'.err = "AgentNotActive"
                     /\ agents' = agents
                     /\ BalancesUnchanged]_vars
    /\ [](\A owner \in Wallets :
            /\ lamports[AgentPda(owner)] =
                   IF agents[owner].initialized
                   THEN AgentRent + agents[owner].stake_amount
                   ELSE 0
            /\ lamports[owner] + lamports[AgentPda(owner)] = InitialLamports(owner)
            /\ agents[owner].is_active <=> agents[owner].stake_amount > 0)

\* a second deactivate_agent was refused after the stake had been returned
C26_Witness ==
    /\ result.op = "deactivate_agent"
    /\ result.err = "AgentNotActive"
    /\ agents[result.agent].initialized
    /\ agents[result.agent].stake_amount = 0
    /\ lamports[result.agent] = InitialLamports(result.agent) - AgentRent

\* the number of Resolved agreements in which w is the recorded payer or payee
RECURSIVE ResolvedCount(_, _)
ResolvedCount(w, ts) ==
    IF ts = {} THEN 0
    ELSE LET t == CHOOSE x \in ts : TRUE
         IN  (IF escrows[t].initialized /\ escrows[t].status = "Resolved"
                  /\ w \in {escrows[t].agent, escrows[t].api}
              THEN 1 ELSE 0) + ResolvedCount(w, ts \ {t})

(* C27: reputation_score is never stale.  In every reachable state the
   reputation_score stored in each reputation record is the value
   calculate_reputation_score returns for the record's current counters,
   after mark_disputed as well as after resolve_dispute. *)
C27_ScoreNeverStale ==
    \A w \in Wallets :
        reputations[w].reputation_score = calculate_reputation_score(reputations[w])

\* the stored score right after each resolve_dispute is the computed one
C27_ScoreFreshAfterResolve ==
    [][(result'.op = "resolve_dispute" /\ result'.err = "Ok") =>
          \A w \in Wallets :
              reputations'[w] # reputations[w] =>
                  reputations'[w].reputation_score =
                      calculate_reputation_score(reputations'[w])]_vars

(* C28: the reputation update is applied once per resolved agreement and
   only to its parties.  In every reachable state total_transactions of
   each record is the number of Resolved agreements in which the entity is
   the recorded payer or payee; release_funds and mark_disputed never change
   total_transactions; resolve_dispute never changes the record of an
   entity that is not a recorded party of the agreement it resolves. *)
C28_CountedOncePerParty ==
    /\ [](\A w \in Wallets :
            reputations[w].total_transactions = ResolvedCount(w, TxIds))
    /\ [][/\ result'.op \in {"release_funds", "mark_disputed"} =>
               \A w \in Wallets : reputations'[w].total_transactions
                                      = reputations[w].total_transactions
          /\ Called("resolve_dispute") =>
               \A w \in Wallets :
                   w \notin {escrows[result'.transaction_id].agent,
                             escrows[result'.transaction_id].api}
                   => reputations'[w] = reputations[w]]_vars

\* release_funds and mark_disputed leave total_transactions alone
C28_OnlyResolveCounts ==
    [][result'.op \in {"release_funds", "mark_disputed"} =>
          \A w \in Wallets : reputations'[w].total_transactions
                                 = reputations[w].total_transactions]_vars

(* C29: only a trusted scorer can settle an agreement.  resolve_dispute
   with a signature of `verifier` over the score succeeds only when
   `verifier` is an oracle currently in the OracleRegistry. *)
C29_VerifierInRegistry ==
    [][\A verifier \in ProgramVerifiers :
          LET good == Sign(verifier, Message("t1", 70))
          IN  (/\ escrows["t1"].initialized
               /\ resolve_dispute("t1", "alice", "bob", verifier, 70, 35,
                                  good, Ed25519Ix(good))
               /\ result'.err = "Ok")
              => (oracle_registry.initialized
                  /\ verifier \in OraclePubkeys(oracle_registry.oracles))]_vars

\* an agreement was resolved while the registry held exactly one oracle:
\* the payee's own signature is accepted as well as the oracle's
C29_ResolvedWithRegistry ==
    /\ result.op = "resolve_dispute"
    /\ result.err = "Ok"
    /\ escrows["t1"].status = "Resolved"
    /\ OraclePubkeys(oracle_registry.oracles) = {"o1"}

(* C30: a Disputed agreement leaves that state only through a successful
   resolve_dispute.  release_funds on a Disputed agreement fails with
   InvalidStatus for every signer and at every time, the payer at or after
   expires_at included, and moves nothing; every step that takes an
   agreement out of Disputed is a successful resolve_dispute on it, and
   until then the escrow account holds the whole amount. *)
C30_DisputedUntilResolved ==
    /\ [][(Called("release_funds")
            /\ escrows[result'.transaction_id].status = "Disputed")
          => (result'.err = "InvalidStatus" /\ escrows' = escrows
              /\ BalancesUnchanged)]_vars
    /\ [][\A t \in TxIds :
            (escrows[t].initialized /\ escrows[t].status = "Disputed"
             /\ escrows'[t] # escrows[t])
            => (/\ result'.op = "resolve_dispute" /\ result'.err = "Ok"
                /\ result'.transaction_id = t
                /\ escrows'[t].status = "Resolved")]_vars
    /\ [](\A t \in TxIds :
            (escrows[t].initialized /\ escrows[t].status = "Disputed")
            => EscrowHoldings(t) = EscrowRent + escrows[t].amount)

\* the payer's release_funds on a Disputed agreement was refused after the
\* time lock had expired
C30_Witness ==
    /\ result.op = "release_funds"
    /\ result.err = "InvalidStatus"
    /\ escrows[result.transaction_id].status = "Disputed"
    /\ result.agent = escrows[result.transaction_id].agent
    /\ now >= escrows[result.transaction_id].expires_at

(* C31: settlement is made in the asset the agreement was opened in.  A
   successful resolve_dispute on an agreement opened in a token pays out of
   the escrow's token holding: afterwards the escrow holds none of the
   locked tokens and its native balance is what it was. *)
C31_ResolveSettlesInTokens ==
    [][(Called("resolve_dispute") /\ result'.err = "Ok"
        /\ escrows[result'.transaction_id].token_mint.some)
       => (/\ tokens'[EscrowPda(result'.transaction_id)] = 0
           /\ lamports'[EscrowPda(result'.transaction_id)]
                  = lamports[EscrowPda(result'.transaction_id)])]_vars

\* release_funds does settle a token agreement out of the token holding
C31_ReleaseSettlesInTokens ==
    [][(Called("release_funds") /\ result'.err = "Ok"
        /\ escrows[result'.transaction_id].token_mint.some)
       => (/\ tokens'[EscrowPda(result'.transaction_id)] = 0
           /\ lamports'[EscrowPda(result'.transaction_id)]
                  = lamports[EscrowPda(result'.transaction_id)])]_vars

\* a token agreement is Resolved, its tokens are still in the escrow and the
\* escrow's native balance was debited by the amount
C31_TokensLeftInEscrow ==
    \E t \in TxIds :
        /\ escrows[t].initialized /\ escrows[t].token_mint.some
        /\ escrows[t].status = "Resolved"
        /\ tokens[EscrowPda(t)] = escrows[t].amount
        /\ lamports[EscrowPda(t)] = EscrowRent - escrows[t].amount

====
